---- MODULE Spec2Model ----
(***************************************************************************)
(* Model of the ClinVar submission filter.                                 *)
(*                                                                         *)
(*   src/clinvar_data.py    class clinvar_data: the filtering and          *)
(*                          reformatting methods over a pandas DataFrame.  *)
(*   src/variant_filter.py  the script: module-level normalisation, final  *)
(*                          null check, build split and export, and the    *)
(*                          same class with retrieve_variant_types.        *)
(*                                                                         *)
(* A DataFrame is a sequence of rows; a row is [idx, col] where idx is the *)
(* pandas index label (it survives filtering) and col maps column names to *)
(* cell values.                                                            *)
(*                                                                         *)
(* Two specifications:                                                     *)
(*   Spec        method calls of the class on a working DataFrame          *)
(*   SpecScript  one run of the module-level code of variant_filter.py     *)
(***************************************************************************)
EXTENDS Integers, Sequences, FiniteSets, TLC

VARIABLES
    df,         \* Spec: data.df, the working DataFrame; SpecScript: module-level df
    prev,       \* Spec: the DataFrame the last method call was given
    sub,        \* Spec: the last derived subset (filter_missing / retrieve_large_variant_types)
    last,       \* Spec: the last method call and its arguments
    err,        \* the exception raised by the last step, or "none"
    pc,         \* SpecScript: position in the module-level code
    raw,        \* SpecScript: the DataFrame as read from the input file (line 103)
    df_b37,     \* SpecScript: line 373
    df_b38,     \* SpecScript: line 374
    written     \* SpecScript: names of the output tables written by to_excel

vars == <<df, prev, sub, last, err, pc, raw, df_b37, df_b38, written>>

-----------------------------------------------------------------------------
(* Bounds of the model *)

MaxRows == 3        \* longest input DataFrame

-----------------------------------------------------------------------------
(* Cell values.  pandas null (NaN / None) is encoded per column type.      *)

NaN == 0 - 1                \* null of a numeric column (coordinates are >= 0)
None == "None"              \* null of a text column
NullTerms == <<"NaN">>      \* null of the Proband_HPO_terms column

\* Proband_HPO_terms is a sequence of tokens: the marker term, another
\* term, and the two delimiters.
Marker == "HP:0000006"
Other == "HP:0001250"
Semi == ";"
Comma == ","

NumCols == {"Start", "Stop", "UUID"}
TermsCol == "Proband_HPO_terms"

IsNull(c, v) ==
    IF c \in NumCols THEN v = NaN
    ELSE IF c = TermsCol THEN v = NullTerms
    ELSE v = None

\* the columns the code names
Columns ==
    {"Start", "Stop", "Chromosome", "Reference", "Alternate", "mondo_pheno",
     "Classification", "Build", "Variant_type", "Summary_status",
     "Proband_HPO_terms", "Inheritance"}

RequiredCols == {"Start", "Chromosome", "mondo_pheno", "Classification", "Build"}

KeyCols == <<"Start", "Stop", "Chromosome", "Reference", "Alternate", "mondo_pheno">>

ExcludedStatus == "REPORTED_INCONCLUSIVE"

ADI == "Autosomal dominant inheritance"

\* clinical significance mapping
clinsigs ==
    [x \in {"benign_variant", "likely_benign_variant",
            "variant_of_unknown_clinical_significance",
            "likely_pathogenic_variant", "pathogenic_variant", "not_assessed"} |->
        CASE x = "benign_variant" -> "Benign"
          [] x = "likely_benign_variant" -> "Likely benign"
          [] x = "variant_of_unknown_clinical_significance" -> "Uncertain significance"
          [] x = "likely_pathogenic_variant" -> "Likely pathogenic"
          [] x = "pathogenic_variant" -> "Pathogenic"
          [] x = "not_assessed" -> "not provided"]

\* a falsy mapping argument: None or an empty dict (the code tests only its truth)
EmptyMapping == [x \in {} |-> x]

-----------------------------------------------------------------------------
(* Helpers over DataFrames *)

Rows(d) == {d[i] : i \in 1..Len(d)}
Index(d) == {d[i].idx : i \in 1..Len(d)}

RECURSIVE Select(_, _)
\* boolean-mask indexing df[mask]: the rows at the positions in keep, in order
Select(d, keep) ==
    IF d = <<>> THEN <<>>
    ELSE LET n == Len(d)
             front == Select(SubSeq(d, 1, n - 1), keep)
         IN  IF n \in keep THEN Append(front, d[n]) ELSE front

KeyOf(r) == [i \in 1..Len(KeyCols) |-> r.col[KeyCols[i]]]

-----------------------------------------------------------------------------
(* class clinvar_data, src/clinvar_data.py *)

filter_missing(d) ==
    Select(d, {i \in 1..Len(d) : \E c \in RequiredCols : IsNull(c, d[i].col[c])})

\* filter_na with "Build" left out of the dropna subset
filter_na_without_build(d) ==
    Select(d, {i \in 1..Len(d) :
                \A c \in RequiredCols \ {"Build"} : ~IsNull(c, d[i].col[c])})

filter_na(d) ==
    Select(d, {i \in 1..Len(d) : \A c \in RequiredCols : ~IsNull(c, d[i].col[c])})

\* filter_duplicates with keep="last"
filter_duplicates_keep_last(d) ==
    Select(d, {i \in 1..Len(d) :
                \A j \in (i + 1)..Len(d) : KeyOf(d[j]) # KeyOf(d[i])})

filter_duplicates(d) ==
    Select(d, {i \in 1..Len(d) : \A j \in 1..(i - 1) : KeyOf(d[j]) # KeyOf(d[i])})

remove_reported_with(d, status) ==
    Select(d, {i \in 1..Len(d) : d[i].col["Summary_status"] # status})

\* (Stop - Start) >= min_size; a NaN operand makes the comparison False
SizeAtLeast(r, min_size) ==
    /\ r.col["Stop"] # NaN
    /\ r.col["Start"] # NaN
    /\ r.col["Stop"] - r.col["Start"] >= min_size

retrieve_large_variant_types(d, min_size, types) ==
    LET df_indels == Select(d, {i \in 1..Len(d) : d[i].col["Variant_type"] \in types})
    IN  Select(df_indels,
               {i \in 1..Len(df_indels) : SizeAtLeast(df_indels[i], min_size)})

\* drop_subset without the negation of the mask
drop_subset_keeps_subset(d, subset) ==
    Select(d, {i \in 1..Len(d) : d[i].idx \in Index(subset)})

drop_subset(d, subset) ==
    Select(d, {i \in 1..Len(d) : d[i].idx \notin Index(subset)})

\* MapValue with the two fallback policies exchanged
MapValue_swapped(mapping, x, exhaustive) ==
    IF x \in DOMAIN mapping THEN mapping[x]
    ELSE IF exhaustive THEN "unknown" ELSE x

\* mapping.get(x, "unknown") / mapping.get(x, x)
MapValue(mapping, x, exhaustive) ==
    IF x \in DOMAIN mapping THEN mapping[x]
    ELSE IF exhaustive THEN x ELSE "unknown"

\* df[target] = df[source].apply(lambda x: mapping.get(...))
AssignMapped(d, target, source, mapping, exhaustive) ==
    [i \in 1..Len(d) |->
        [d[i] EXCEPT !.col =
            [c \in (DOMAIN d[i].col) \cup {target} |->
                IF c = target
                THEN MapValue(mapping, d[i].col[source], exhaustive)
                ELSE d[i].col[c]]]]

Returned(d) == [err |-> "none", df |-> d]
Raised(e, d) == [err |-> e, df |-> d]

reformat_columns(d, replace, mapping, column, new_column, exhaustive) ==
    IF replace /\ mapping # EmptyMapping /\ column # None /\ new_column = None
    THEN Returned(AssignMapped(d, column, column, mapping, exhaustive))
    ELSE IF new_column # None /\ mapping # EmptyMapping /\ column # None /\ ~replace
    THEN Returned(AssignMapped(d, new_column, column, mapping, exhaustive))
    ELSE Raised("ValueError", d)

-----------------------------------------------------------------------------
(* class clinvar_data, src/variant_filter.py *)

\* df[(df["Variant_type"] in type)]: list containment compares a list
\* element with the whole Series and takes the truth value of the
\* resulting Series, which raises ValueError; with an empty list the
\* test is False and df[False] raises KeyError.  The size filter after
\* it (with its literal 50) is never reached.
retrieve_variant_types(d, min_size, type) ==
    IF type = {} THEN Raised("KeyError", d) ELSE Raised("ValueError", d)

-----------------------------------------------------------------------------
(* Module-level code of src/variant_filter.py, lines 327-387 *)

\* str.contains("HP:0000006", na=False): the marker text occurs in the cell
contains_marker(t) == t # NullTerms /\ \E i \in 1..Len(t) : t[i] = Marker

RECURSIVE sub_marker(_)
\* re.sub("HP:0000006;|HP:0000006$", "", t): leftmost matches, left to right
sub_marker(t) ==
    IF t = <<>> THEN <<>>
    ELSE IF t[1] = Marker /\ Len(t) >= 2 /\ t[2] = Semi THEN sub_marker(SubSeq(t, 3, Len(t)))
    ELSE IF t[1] = Marker /\ Len(t) = 1 THEN <<>>
    ELSE <<t[1]>> \o sub_marker(Tail(t))

\* Series.str.replace(..., regex=True) leaves a null cell null
strip_marker(t) == IF t = NullTerms THEN NullTerms ELSE sub_marker(t)

\* the .str accessor raises AttributeError on a column without any string:
\* a non-empty column of nulls only is read as float64
StrAccessorFails(d) ==
    d # <<>> /\ \A i \in 1..Len(d) : d[i].col[TermsCol] = NullTerms

\* df.loc[mask, "Inheritance"] = "Autosomal dominant inheritance"
rewrite_inheritance(d) ==
    [i \in 1..Len(d) |->
        IF contains_marker(d[i].col[TermsCol])
        THEN [d[i] EXCEPT !.col["Inheritance"] = ADI]
        ELSE d[i]]

\* df["Proband_HPO_terms"] = df["Proband_HPO_terms"].str.replace(...)
remove_marker(d) ==
    [i \in 1..Len(d) |-> [d[i] EXCEPT !.col[TermsCol] = strip_marker(@)]]

\* str(x).replace("chr", ""): str() of a null cell is "nan"
strip_chr(x) ==
    CASE x = None -> "nan"
      [] x = "chr7" -> "7"
      [] x = "chrX" -> "X"
      [] OTHER -> x

reformat_chromosome(d) ==
    [i \in 1..Len(d) |-> [d[i] EXCEPT !.col["Chromosome"] = strip_chr(@)]]

\* df.insert(0, "UUID", [...]): one time-based value per row, 1 ms apart
insert_uuid(d) ==
    [i \in 1..Len(d) |->
        [d[i] EXCEPT !.col = [k \in (DOMAIN d[i].col) \cup {"UUID"} |->
                                IF k = "UUID" THEN i ELSE d[i].col[k]]]]

\* the final check over the required columns only
has_empty_values_required_only(d) ==
    \E i \in 1..Len(d) : \E c \in RequiredCols : IsNull(c, d[i].col[c])

\* df.drop(columns=["Stop", "Variant_type"]).isnull().values.any()
has_empty_values(d) ==
    \E i \in 1..Len(d) :
        \E c \in (DOMAIN d[i].col) \ {"Stop", "Variant_type"} : IsNull(c, d[i].col[c])

\* the build split with != in place of ==
select_build_not_equal(d, build) ==
    Select(d, {i \in 1..Len(d) : d[i].col["Build"] # build})

\* df[df["Build"] == build]
select_build(d, build) ==
    Select(d, {i \in 1..Len(d) : d[i].col["Build"] = build})

-----------------------------------------------------------------------------
(* Inputs.  A DataFrame read by pd.read_excel has the index 0, 1, 2, ...   *)

BaseCol ==
    [c \in Columns |->
        CASE c = "Start" -> 100
          [] c = "Stop" -> 180
          [] c = "Chromosome" -> "chr7"
          [] c = "Reference" -> "A"
          [] c = "Alternate" -> "T"
          [] c = "mondo_pheno" -> "MONDO:0000001"
          [] c = "Classification" -> "pathogenic_variant"
          [] c = "Build" -> "GRCh37"
          [] c = "Variant_type" -> "SNV"
          [] c = "Summary_status" -> "REPORTED_POSITIVE"
          [] c = "Proband_HPO_terms" -> <<Other>>
          [] c = "Inheritance" -> "Unknown"]

With(col, c, v) == [col EXCEPT ![c] = v]

\* the kinds of row the method calls are tried on
MethodPool ==
    { BaseCol,
      With(With(With(BaseCol, "Variant_type", "deletion"),
                "Classification", "likely_benign_variant"), "Build", "GRCh38"),
      With(With(With(BaseCol, "Variant_type", "deletion"), "Stop", NaN),
           "Summary_status", ExcludedStatus),
      With(With(With(BaseCol, "Variant_type", "insertion"), "Stop", 110),
           "Build", None),
      With(With(With(BaseCol, "Variant_type", "amplification"), "Stop", 150),
           "Classification", "other_variant"),
      With(With(BaseCol, "Start", NaN), "Alternate", "G"),
      With(With(BaseCol, "Classification", None), "Variant_type", None) }

Frame(cols) == [i \in 1..Len(cols) |-> [idx |-> i - 1, col |-> cols[i]]]

Frames(pool) == {Frame(cols) : cols \in UNION {[1..n -> pool] : n \in 0..MaxRows}}

\* the kinds of row a run of the script is tried on
ScriptPool ==
    { With(BaseCol, TermsCol, <<Marker, Semi, Other>>),
      With(With(BaseCol, "Build", "GRCh38"), "Summary_status", ExcludedStatus),
      With(With(BaseCol, TermsCol, <<Marker, Comma, Other>>), "Build", "NCBI36"),
      With(With(With(BaseCol, TermsCol, <<Other, Semi, Marker>>),
                "Variant_type", "deletion"), "Alternate", "G"),
      With(BaseCol, TermsCol, NullTerms),
      With(With(With(With(BaseCol, TermsCol, <<Marker>>), "Inheritance", None),
                "Stop", NaN), "Variant_type", None),
      With(With(BaseCol, "Chromosome", None), "Build", "GRCh38"),
      With(BaseCol, "Classification", None),
      With(With(BaseCol, "Inheritance", None), "Reference", "C") }

NoCall == [op |-> "none"]

Idle ==
    /\ pc = "methods"
    /\ raw = <<>>
    /\ df_b37 = <<>>
    /\ df_b38 = <<>>
    /\ written = {}

Init ==
    /\ df \in Frames(MethodPool)
    /\ prev = df
    /\ sub = <<>>
    /\ last = NoCall
    /\ err = "none"
    /\ Idle

scriptVars == <<pc, raw, df_b37, df_b38, written>>

MinSizes == {50, 51}
TypeLists == {{}, {"deletion"}, {"amplification", "deletion", "insertion"}}

\* missing_data = data.filter_missing(data.df)
\* (filter_na may follow it on the same data.df, as in main)
FilterMissing ==
    /\ last = NoCall
    /\ sub' = filter_missing(df)
    /\ prev' = df
    /\ last' = [op |-> "filter_missing"]
    /\ UNCHANGED <<df, err, scriptVars>>

\* data.df = data.filter_na(data.df)
FilterNa ==
    /\ last = NoCall \/ last.op = "filter_missing"
    /\ df' = filter_na(df)
    /\ prev' = df
    /\ last' = [op |-> "filter_na", split |-> (last.op = "filter_missing")]
    /\ UNCHANGED <<sub, err, scriptVars>>

\* data.df = data.filter_duplicates(data.df)
FilterDuplicates ==
    /\ last = NoCall
    /\ df' = filter_duplicates(df)
    /\ prev' = df
    /\ last' = [op |-> "filter_duplicates"]
    /\ UNCHANGED <<sub, err, scriptVars>>

\* data.df = data.remove_reported_with(df=data.df, status=...)
RemoveReportedWith ==
    /\ last = NoCall
    /\ \E status \in {ExcludedStatus, "REPORTED_POSITIVE"} :
        /\ df' = remove_reported_with(df, status)
        /\ last' = [op |-> "remove_reported_with", status |-> status]
    /\ prev' = df
    /\ UNCHANGED <<sub, err, scriptVars>>

\* cnv_data = data.retrieve_large_variant_types(data.df, min_size, types)
RetrieveLargeVariantTypes ==
    /\ last = NoCall
    /\ \E min_size \in MinSizes, types \in TypeLists :
        /\ sub' = retrieve_large_variant_types(df, min_size, types)
        /\ last' = [op |-> "retrieve_large_variant_types",
                    min_size |-> min_size, types |-> types]
    /\ prev' = df
    /\ UNCHANGED <<df, err, scriptVars>>

\* cnv_data = data.retrieve_variant_types(df=data.df, type=..., min_size=...)
RetrieveVariantTypes ==
    /\ last = NoCall
    /\ \E min_size \in MinSizes, types \in TypeLists :
        LET r == retrieve_variant_types(df, min_size, types)
        IN  /\ err' = r.err
            /\ sub' = IF r.err = "none" THEN r.df ELSE sub
            /\ last' = [op |-> "retrieve_variant_types",
                        min_size |-> min_size, types |-> types]
    /\ prev' = df
    /\ UNCHANGED <<df, scriptVars>>

\* data.df = data.drop_subset(data.df, subset), subset derived before
DropSubset ==
    /\ last.op \in {"filter_missing", "retrieve_large_variant_types"}
    /\ df' = drop_subset(df, sub)
    /\ prev' = df
    /\ last' = [op |-> "drop_subset"]
    /\ UNCHANGED <<sub, err, scriptVars>>

\* data.df = data.reformat_columns(data.df, replace, mapping, column, new_column, exhaustive)
ReformatColumns ==
    /\ last = NoCall
    /\ \E replace \in BOOLEAN, mapping \in {EmptyMapping, clinsigs},
          column \in {None, "Classification"},
          new_column \in {None, "Classification_reformated"},
          exhaustive \in BOOLEAN :
        LET r == reformat_columns(df, replace, mapping, column, new_column, exhaustive)
        IN  /\ err' = r.err
            /\ df' = r.df
            /\ last' = [op |-> "reformat_columns", replace |-> replace,
                        mapping |-> mapping, column |-> column,
                        new_column |-> new_column, exhaustive |-> exhaustive]
    /\ prev' = df
    /\ UNCHANGED <<sub, scriptVars>>

Next ==
    \/ FilterMissing
    \/ FilterNa
    \/ FilterDuplicates
    \/ RemoveReportedWith
    \/ RetrieveLargeVariantTypes
    \/ RetrieveVariantTypes
    \/ DropSubset
    \/ ReformatColumns

Spec == Init /\ [][Next]_vars

-----------------------------------------------------------------------------
(* SpecScript: one run of variant_filter.py from line 327.  main() is *)
(* called on the last line of the file, after the export.             *)

methodVars == <<prev, sub, last>>

InitScript ==
    /\ raw \in Frames(ScriptPool)
    /\ df = raw
    /\ pc = "L327"
    /\ err = "none"
    /\ df_b37 = <<>>
    /\ df_b38 = <<>>
    /\ written = {}
    /\ prev = <<>>
    /\ sub = <<>>
    /\ last = NoCall

\* lines 327-329: mask on Proband_HPO_terms, Inheritance set where it holds
InheritanceRewrite ==
    /\ pc = "L327"
    /\ IF StrAccessorFails(df)
       THEN /\ err' = "AttributeError"
            /\ pc' = "exit_L327"
            /\ df' = df
       ELSE /\ df' = rewrite_inheritance(df)
            /\ pc' = "L336"
            /\ err' = err
    /\ UNCHANGED <<raw, df_b37, df_b38, written, methodVars>>

\* lines 336-338: the marker is removed from Proband_HPO_terms
StripMarker ==
    /\ pc = "L336"
    /\ df' = remove_marker(df)
    /\ pc' = "L344"
    /\ UNCHANGED <<err, raw, df_b37, df_b38, written, methodVars>>

\* line 344
ChromosomeStrip ==
    /\ pc = "L344"
    /\ df' = reformat_chromosome(df)
    /\ pc' = "L347"
    /\ UNCHANGED <<err, raw, df_b37, df_b38, written, methodVars>>

\* lines 347-355
InsertUuid ==
    /\ pc = "L347"
    /\ df' = insert_uuid(df)
    /\ pc' = "L358"
    /\ UNCHANGED <<err, raw, df_b37, df_b38, written, methodVars>>

\* lines 358-365: the final check raises ValueError on an empty value
FinalCheck ==
    /\ pc = "L358"
    /\ IF has_empty_values(df)
       THEN /\ err' = "ValueError"
            /\ pc' = "exit_L362"
       ELSE /\ err' = err
            /\ pc' = "L373"
    /\ UNCHANGED <<df, raw, df_b37, df_b38, written, methodVars>>

\* lines 373-374
BuildSplit ==
    /\ pc = "L373"
    /\ df_b37' = select_build(df, "GRCh37")
    /\ df_b38' = select_build(df, "GRCh38")
    /\ pc' = "L384"
    /\ UNCHANGED <<df, err, raw, written, methodVars>>

\* line 384: df_missing is assigned nowhere in the module, so the first
\* to_excel raises NameError; lines 385-387 and main() are not reached
Export ==
    /\ pc = "L384"
    /\ err' = "NameError"
    /\ pc' = "exit_L384"
    /\ UNCHANGED <<df, raw, df_b37, df_b38, written, methodVars>>

NextScript ==
    \/ InheritanceRewrite
    \/ StripMarker
    \/ ChromosomeStrip
    \/ InsertUuid
    \/ FinalCheck
    \/ BuildSplit
    \/ Export

SpecScript == InitScript /\ [][NextScript]_vars

-----------------------------------------------------------------------------
(* Properties of the method calls (Spec) *)

\* the rows of a keep the order they have in the input (index labels ascend)
Ordered(a) == \A i, j \in 1..Len(a) : i < j => a[i].idx < a[j].idx

HasNullRequired(r) == \E c \in RequiredCols : IsNull(c, r.col[c])

\* C1: the missing-data split. filter_missing keeps exactly the rows with a
\* null required field, filter_na exactly the rows with none, both in input
\* order; together they are disjoint and their union is the input.
C1_MissingSplit ==
    /\ last.op = "filter_missing" =>
        /\ Ordered(sub)
        /\ \A r \in Rows(prev) : r \in Rows(sub) <=> HasNullRequired(r)
        /\ Rows(sub) \subseteq Rows(prev)
    /\ last.op = "filter_na" =>
        /\ Ordered(df)
        /\ \A r \in Rows(prev) : r \in Rows(df) <=> ~HasNullRequired(r)
        /\ Rows(df) \subseteq Rows(prev)
    /\ (last.op = "filter_na" /\ last.split) =>
        /\ Rows(sub) \cup Rows(df) = Rows(prev)
        /\ Rows(sub) \cap Rows(df) = {}
        /\ Len(sub) + Len(df) = Len(prev)

C1_Witness ==
    /\ last.op = "filter_na"
    /\ last.split
    /\ Len(prev) = 3
    /\ Len(sub) = 1
    /\ Len(df) = 2

\* C3: filter_duplicates returns the first occurrence of each identity key,
\* in input order: no two rows of the result share a key, every key of the
\* input is represented, and the result is a fixed point of the method.
C3_FirstOccurrence ==
    last.op = "filter_duplicates" =>
        /\ Ordered(df)
        /\ Rows(df) \subseteq Rows(prev)
        /\ \A i \in 1..Len(prev) :
            prev[i] \in Rows(df) <=> (\A j \in 1..(i - 1) : KeyOf(prev[j]) # KeyOf(prev[i]))
        /\ \A i, j \in 1..Len(df) : i # j => KeyOf(df[i]) # KeyOf(df[j])
        /\ {KeyOf(r) : r \in Rows(df)} = {KeyOf(r) : r \in Rows(prev)}
        /\ filter_duplicates(df) = df

C3_Witness ==
    /\ last.op = "filter_duplicates"
    /\ Len(prev) = 3
    /\ Len(df) = 2
    /\ KeyOf(prev[1]) # KeyOf(prev[2])
    /\ KeyOf(prev[3]) = KeyOf(prev[1])

\* what the extractor is to return: the rows of a type in the set whose
\* Stop - Start is known and at least min_size
IsLarge(r, min_size, types) ==
    /\ r.col["Variant_type"] \in types
    /\ r.col["Stop"] # NaN
    /\ r.col["Start"] # NaN
    /\ r.col["Stop"] - r.col["Start"] >= min_size

ExtractedExactly(result, input, min_size, types) ==
    /\ Ordered(result)
    /\ Rows(result) \subseteq Rows(input)
    /\ \A r \in Rows(input) : r \in Rows(result) <=> IsLarge(r, min_size, types)

\* C4: the large-variant extractor, called with a set of types and a minimum
\* size, completes without an error and returns exactly the rows of a type
\* in the set with Stop - Start >= min_size (a null Stop is left out), and
\* removes nothing from the collection it was given.
C4_Extractor ==
    last.op \in {"retrieve_large_variant_types", "retrieve_variant_types"} =>
        /\ err = "none"
        /\ ExtractedExactly(sub, prev, last.min_size, last.types)
        /\ df = prev

\* the extractor of src/clinvar_data.py alone does what C4 says
C4_LargeVariantTypesOnly ==
    last.op = "retrieve_large_variant_types" =>
        /\ err = "none"
        /\ ExtractedExactly(sub, prev, last.min_size, last.types)
        /\ df = prev

Keys(d) == {KeyOf(r) : r \in Rows(d)}

\* C5 as stated: drop_subset removes exactly the rows whose identity key
\* (Start, Stop, Chromosome, Reference, Alternate, mondo_pheno) occurs in
\* the subset.
C5_ByIdentityKey ==
    last.op = "drop_subset" =>
        \A r \in Rows(prev) : r \in Rows(df) <=> KeyOf(r) \notin Keys(sub)

\* C5 amended: drop_subset removes exactly the rows whose index label is an
\* index label of the subset, keeps the others in order, and no row is in
\* both the subset and the result.
C5_ByIndexLabel ==
    last.op = "drop_subset" =>
        /\ Ordered(df)
        /\ Rows(df) \subseteq Rows(prev)
        /\ \A r \in Rows(prev) : r \in Rows(df) <=> r.idx \notin Index(sub)
        /\ Index(df) \cap Index(sub) = {}
        /\ Rows(df) \cap Rows(sub) = {}

C5_Witness ==
    /\ last.op = "drop_subset"
    /\ Len(prev) = 3
    /\ Len(sub) = 1
    /\ Len(df) = 2
    /\ \E r \in Rows(df) : KeyOf(r) \in Keys(sub)

\* the column a reformat_columns call is to write
Target(call) == IF call.new_column = None THEN call.column ELSE call.new_column

\* C7: with a mapping and a source column given, reformat rewrites the
\* source column in place when no destination column is given, and adds the
\* destination column and leaves the source column as it was when one is
\* given; it never returns normally without having applied the mapping.
\* (replace is left at what the caller gave; main gives replace=True together
\* with a destination column.)
C7_Modes ==
    (/\ last.op = "reformat_columns"
     /\ last.mapping # EmptyMapping
     /\ last.column # None) =>
        /\ (last.new_column = None /\ last.replace) =>
            /\ err = "none"
            /\ DOMAIN df = DOMAIN prev
        /\ last.new_column # None =>
            /\ err = "none"
            /\ \A i \in 1..Len(df) :
                /\ last.new_column \in DOMAIN df[i].col
                /\ df[i].col[last.column] = prev[i].col[last.column]

\* the part of C7 the code does keep: a call that returns normally has
\* written the target column, and every other call raises
C7_NoSilentNoOp ==
    last.op = "reformat_columns" =>
        \/ err = "ValueError" /\ df = prev
        \/ /\ err = "none"
           /\ \A i \in 1..Len(df) : Target(last) \in DOMAIN df[i].col

\* C8: every value v of the source column is written as mapping[v] when v is
\* a key of the mapping, else as "unknown" when exhaustive is false and as v
\* itself when exhaustive is true.
C8_Fallback ==
    (last.op = "reformat_columns" /\ err = "none") =>
        /\ Len(df) = Len(prev)
        /\ \A i \in 1..Len(df) :
            LET v == prev[i].col[last.column]
                w == df[i].col[Target(last)]
            IN  /\ v \in DOMAIN last.mapping => w = last.mapping[v]
                /\ (v \notin DOMAIN last.mapping /\ ~last.exhaustive) => w = "unknown"
                /\ (v \notin DOMAIN last.mapping /\ last.exhaustive) => w = v

C8_Witness ==
    /\ last.op = "reformat_columns"
    /\ err = "none"
    /\ ~last.exhaustive
    /\ Len(df) = 2
    /\ prev[1].col["Classification"] = "other_variant"
    /\ df[1].col[Target(last)] = "unknown"
    /\ prev[2].col["Classification"] = "pathogenic_variant"
    /\ df[2].col[Target(last)] = "Pathogenic"

-----------------------------------------------------------------------------
(* Properties of a run of the script (SpecScript) *)

CheckPassed == pc \in {"L373", "L384", "exit_L384"}
SplitDone == pc \in {"L384", "exit_L384"}

\* the filtered collection the pipeline is to produce from the input:
\* minus missing, minus duplicates, minus the excluded status, minus the
\* large structural variants, each stage on the output of the one before
ExpectedFiltered(d) ==
    LET complete == filter_na(d)
        unique == filter_duplicates(complete)
        reported == remove_reported_with(unique, ExcludedStatus)
        large == retrieve_large_variant_types(
                    reported, 50, {"amplification", "deletion", "insertion"})
    IN  drop_subset(reported, large)

\* C2: once the final check has passed, the collection that is split by
\* build and handed to the export of `filtered` holds exactly the input rows
\* that are left after the missing-data, duplicate, status and large-variant
\* stages.
C2_FilteredIsPipelineOutput ==
    CheckPassed => Index(df) = Index(ExpectedFiltered(raw))

NoEmptyValue(r) ==
    \A c \in (DOMAIN r.col) \ {"Stop", "Variant_type"} : ~IsNull(c, r.col[c])

\* C6: a null outside Stop and Variant_type at the final check aborts the
\* run there: the run gets past the check only with no such null in the
\* collection that is then split and exported, and a run the check aborts
\* has split nothing and written nothing.
C6_CheckGuardsExport ==
    /\ CheckPassed => \A r \in Rows(df) : NoEmptyValue(r)
    /\ pc = "exit_L362" =>
        /\ err = "ValueError"
        /\ \E r \in Rows(df) : ~NoEmptyValue(r)
        /\ df_b37 = <<>>
        /\ df_b38 = <<>>
        /\ written = {}
    /\ written # {} => \A r \in Rows(df) : NoEmptyValue(r)

C6_Witness ==
    /\ pc = "exit_L362"
    /\ err = "ValueError"
    /\ Len(df) = 3
    /\ NoEmptyValue(df[1])
    /\ NoEmptyValue(df[2])
    /\ df[3].col["Inheritance"] = None

\* C9: after the split, build_37 holds exactly the rows of the checked
\* collection whose Build is GRCh37 and build_38 exactly those whose Build
\* is GRCh38, in order; they are disjoint, and a row of another Build is in
\* neither.
C9_BuildPartition ==
    SplitDone =>
        /\ Ordered(df_b37)
        /\ Ordered(df_b38)
        /\ Rows(df_b37) \subseteq Rows(df)
        /\ Rows(df_b38) \subseteq Rows(df)
        /\ \A r \in Rows(df) :
            /\ r \in Rows(df_b37) <=> r.col["Build"] = "GRCh37"
            /\ r \in Rows(df_b38) <=> r.col["Build"] = "GRCh38"
        /\ Rows(df_b37) \cap Rows(df_b38) = {}

C9_Witness ==
    /\ pc = "L384"
    /\ Len(df) = 3
    /\ Len(df_b37) = 1
    /\ Len(df_b38) = 1
    /\ \E r \in Rows(df) : r.col["Build"] = "NCBI36"

\* the terms of a Proband_HPO_terms cell, delimiters left out
IsTerm(x) == x \notin {Semi, Comma}
NotMarker(x) == x # Marker
TermsOf(t) == IF t = NullTerms THEN <<>> ELSE SelectSeq(t, IsTerm)
ListsMarker(t) == \E i \in 1..Len(TermsOf(t)) : TermsOf(t)[i] = Marker

MarkerStepsDone == pc \in {"L344", "L347", "L358", "L373", "L384", "exit_L362", "exit_L384"}

\* C10: once the rewrite and the strip have run, every row whose
\* Proband_HPO_terms listed the marker term has Inheritance "Autosomal
\* dominant inheritance" and holds its other terms without the marker, and
\* every row without the marker keeps its Inheritance and its terms.
C10_MarkerRewrite ==
    MarkerStepsDone =>
        \A i \in 1..Len(raw) :
            LET before == raw[i].col[TermsCol]
                after == df[i].col[TermsCol]
            IN  IF ListsMarker(before)
                THEN /\ df[i].col["Inheritance"] = ADI
                     /\ ~ListsMarker(after)
                     /\ TermsOf(after) = SelectSeq(TermsOf(before), NotMarker)
                ELSE /\ df[i].col["Inheritance"] = raw[i].col["Inheritance"]
                     /\ after = before

====
